---- MODULE Spec2Model ----
(***************************************************************************)
(* Model of jmp (src/index.js): the Jupyter Messaging Protocol codec       *)
(* (Message: _encode, _decode, respond) and the ZMQ socket adapter         *)
(* (Socket: send, on, once, removeListener, removeAllListeners).           *)
(*                                                                         *)
(* A frame is a text, modelled as a sequence of tokens.  A JSON object is  *)
(* a function from Keys to Vals \cup {undefined}: reading a property that  *)
(* is absent yields undefined, as in JavaScript.                           *)
(***************************************************************************)
EXTENDS Naturals, Sequences, FiniteSets, TLC

VARIABLES
    orig,       \* codec: the Message that was encoded last
    enc,        \* codec: [scheme, key] given to _encode
    wire,       \* codec: the frames in flight
    edits,      \* codec: number of changes made to the frames in flight
    pc,         \* codec: "idle" | "wire" | "decoded"
    dec,        \* codec: what the last _decode did
    _jmp,       \* Socket: this._jmp = [scheme, key, _listeners]
    events,     \* transport (EventEmitter): listeners per event, in order
    nextWrapper,\* number of listener closures created so far
    sent,       \* transport: raw sends, in order
    uuidCount,  \* number of uuid.v4() calls so far
    last        \* the last Socket / Message operation and what it did

vars == <<orig, enc, wire, edits, pc, dec, _jmp, events, nextWrapper, sent, uuidCount, last>>
codecVars == <<orig, enc, wire, edits, pc, dec>>
socketVars == <<_jmp, events, nextWrapper, sent, uuidCount, last>>

-----------------------------------------------------------------------------
(* Bounds of the model *)

MaxIdents == 1      \* idents of an encoded Message
MaxTamper == 1      \* frames altered, dropped or appended on the wire
MaxWrappers == 2    \* listener closures created by on / once
MaxSent == 2        \* raw sends recorded

-----------------------------------------------------------------------------
(* JavaScript values *)

undefined == "undefined"
null == "null"

\* a truth test that takes the empty string for a key
Truthy_NotUndefined(x) == x # undefined

\* if (x), x || y : undefined and the empty string are falsy
Truthy(x) == x \notin {undefined, ""}

Or(x, y) == IF Truthy(x) THEN x ELSE y

DELIMITER == <<"<IDS|MSG>">>

\* the value of messageFrames[j] for j >= messageFrames.length
undefinedFrame == <<undefined>>

-----------------------------------------------------------------------------
(* JSON objects and texts *)

KeyOrder == <<"msg_id", "username", "session", "msg_type", "version", "status">>
Keys == {KeyOrder[n] : n \in 1..Len(KeyOrder)}
Vals == {"a", "u", "s", "execute_request", "execute_reply", "5.0", "5.3",
         "uuid1", "uuid2", "uuid3", "uuid4", "ok"}

EmptyObject == [k \in Keys |-> undefined]

Obj(id, user, session, type, version) ==
    [k \in Keys |-> CASE k = "msg_id" -> id
                      [] k = "username" -> user
                      [] k = "session" -> session
                      [] k = "msg_type" -> type
                      [] k = "version" -> version
                      [] OTHER -> undefined]

\* JSON.stringify of an object: members whose value is undefined are skipped
RECURSIVE Members(_, _, _)
Members(obj, n, first) ==
    IF n > Len(KeyOrder) THEN <<>>
    ELSE LET k == KeyOrder[n] IN
         IF obj[k] = undefined THEN Members(obj, n + 1, first)
         ELSE (IF first THEN <<>> ELSE <<",">>)
              \o <<"\"", k, "\"", ":", "\"", obj[k], "\"">>
              \o Members(obj, n + 1, FALSE)

stringify(obj) == <<"{">> \o Members(obj, 1, TRUE) \o <<"}">>

\* JSON.parse of the members of an object text, from token pos on
RECURSIVE parseMembers(_, _, _)
parseMembers(t, pos, acc) ==
    IF pos + 7 > Len(t) THEN [ok |-> FALSE, value |-> acc]
    ELSE IF ~ (/\ t[pos] = "\"" /\ t[pos + 1] \in Keys /\ t[pos + 2] = "\""
               /\ t[pos + 3] = ":"
               /\ t[pos + 4] = "\"" /\ t[pos + 5] \in Vals /\ t[pos + 6] = "\"")
         THEN [ok |-> FALSE, value |-> acc]
    ELSE LET acc2 == [acc EXCEPT ![t[pos + 1]] = t[pos + 5]] IN
         IF pos + 7 = Len(t)
         THEN [ok |-> t[pos + 7] = "}", value |-> acc2]
         ELSE IF t[pos + 7] = "," THEN parseMembers(t, pos + 8, acc2)
         ELSE [ok |-> FALSE, value |-> acc2]

\* JSON.parse(text): ok = FALSE stands for the SyntaxError it throws
parse(t) ==
    IF Len(t) < 2 \/ t[1] # "{" THEN [ok |-> FALSE, value |-> EmptyObject]
    ELSE IF Len(t) = 2 THEN [ok |-> t[2] = "}", value |-> EmptyObject]
    ELSE parseMembers(t, 2, EmptyObject)

\* toJSON(value) of _decode: value.toString() throws on undefined
toJSON(value) ==
    IF value = undefinedFrame THEN [ok |-> FALSE, value |-> EmptyObject]
    ELSE parse(value)

-----------------------------------------------------------------------------
(* crypto: createHmac(scheme, key), update x 4, digest("hex").  The four   *)
(* updates hash the concatenation of the four buffers; the digest is       *)
(* modelled as collision free.                                             *)

\* a digest that is not keyed
hmacDigest_NoKey(scheme, key, f1, f2, f3, f4) ==
    <<"hmac", scheme, "">> \o f1 \o f2 \o f3 \o f4

\* a digest that leaves out the fourth update
hmacDigest_NoContent(scheme, key, f1, f2, f3, f4) ==
    <<"hmac", scheme, key>> \o f1 \o f2 \o f3

hmacDigest(scheme, key, f1, f2, f3, f4) ==
    <<"hmac", scheme, key>> \o f1 \o f2 \o f3 \o f4

-----------------------------------------------------------------------------
(* Message *)

Message(idents, header, parentHeader, metadata, content, blobs) ==
    [idents |-> idents, header |-> header, parentHeader |-> parentHeader,
     metadata |-> metadata, content |-> content, blobs |-> blobs,
     signatureOK |-> null]

NewMessage == Message(<<>>, EmptyObject, EmptyObject, EmptyObject, EmptyObject, <<>>)

\* messageFrames[j], 0-based as in the source
At(messageFrames, j) ==
    IF j < Len(messageFrames) THEN messageFrames[j + 1] ELSE undefinedFrame

\* a scan that stops at the last delimiter frame instead of the first
scan_LastDelimiter(messageFrames, i) ==
    LET found == {n \in 1..Len(messageFrames) : messageFrames[n] = DELIMITER}
    IN IF found = {} THEN Len(messageFrames)
       ELSE (CHOOSE n \in found : \A k \in found : k <= n) - 1

\* the for loop of _decode: the index of the first delimiter frame, or length
RECURSIVE scan(_, _)
scan(messageFrames, i) ==
    IF i < Len(messageFrames) /\ messageFrames[i + 1] # DELIMITER
    THEN scan(messageFrames, i + 1)
    ELSE i

NotEnoughFrames == "JMP: MESSAGE: DECODE: Not enough message frames"
MissingDelimiter == "JMP: MESSAGE: DECODE: Missing delimiter"
IncorrectSignature == "JMP: MESSAGE: DECODE: Incorrect message signature:"

\* what a call of _decode did: the message afterwards, how the call ended
\* ("returned" after populating, "aborted" by an early return, "threw"), the
\* console.error line, the frame offsets given to JSON.parse, and the number
\* of HMAC digests computed
Outcome(msg, end, log, parsed, digests) ==
    [msg |-> msg, end |-> end, log |-> log, parsed |-> parsed, digests |-> digests]

\* content and metadata taken in frame order
ParseOrder_FrameOrder == <<2, 3, 4, 5>>

\* the order in which _decode parses the frames after the delimiter:
\* header, parentHeader, content, metadata
ParseOrder == <<2, 3, 5, 4>>

\* a slice that starts one frame early
slice_FromContent(messageFrames, start) ==
    SubSeq(messageFrames, start, Len(messageFrames))

\* Array.prototype.slice.apply(messageFrames, [start]), start 0-based
slice(messageFrames, start) ==
    SubSeq(messageFrames, start + 1, Len(messageFrames))

\* lines 208-212 of _decode, on message m with the delimiter at index i
decodeBody(m, messageFrames, i, digests) ==
    LET f(j) == At(messageFrames, i + j)
        r(n) == toJSON(f(ParseOrder[n]))
        failAt == IF ~ r(1).ok THEN 1
                  ELSE IF ~ r(2).ok THEN 2
                  ELSE IF ~ r(3).ok THEN 3
                  ELSE IF ~ r(4).ok THEN 4
                  ELSE 5
        reached == SubSeq(ParseOrder, 1, IF failAt < 4 THEN failAt ELSE 4)
        IsText(o) == f(o) # undefinedFrame
        msg == [m EXCEPT
                  !.header = IF failAt > 1 THEN r(1).value ELSE @,
                  !.parentHeader = IF failAt > 2 THEN r(2).value ELSE @,
                  !.content = IF failAt > 3 THEN r(3).value ELSE @,
                  !.metadata = IF failAt > 4 THEN r(4).value ELSE @,
                  !.blobs = IF failAt > 4 THEN slice(messageFrames, i + 6) ELSE @]
    IN Outcome(msg, IF failAt > 4 THEN "returned" ELSE "threw", "",
               SelectSeq(reached, IsText), digests)

\* a frame count that leaves the idents out of account
tooFewFrames_CountsAll(messageFrames, i) == Len(messageFrames) < 5

\* the guard of line 173
tooFewFrames(messageFrames, i) == Len(messageFrames) - i < 5

\* a digest that takes the frames in the order they are parsed
expectedSignature_ParseOrder(messageFrames, i, scheme, key) ==
    hmacDigest(scheme, key, At(messageFrames, i + 2), At(messageFrames, i + 3),
               At(messageFrames, i + 5), At(messageFrames, i + 4))

\* lines 189-194: the HMAC of the four frames after the signature frame
expectedSignature(messageFrames, i, scheme, key) ==
    hmacDigest(scheme, key, At(messageFrames, i + 2), At(messageFrames, i + 3),
               At(messageFrames, i + 4), At(messageFrames, i + 5))

\* a decode whose two error branches log and do not return
_decode_NoReturn(this, messageFrames, scheme0, key0) ==
    LET scheme == Or(scheme0, "sha256")
        key == Or(key0, "")
        i == scan(messageFrames, 0)
        f(j) == At(messageFrames, i + j)
        m0 == [this EXCEPT !.idents = SubSeq(messageFrames, 1, i)]
        ok == expectedSignature(messageFrames, i, scheme, key) = f(1)
        m1 == [m0 EXCEPT !.signatureOK = IF ok THEN "true" ELSE "false"]
    IN IF ~ Truthy(key)
       THEN decodeBody(m0, messageFrames, i, 0)
       ELSE IF f(5) = undefinedFrame
       THEN Outcome(m0, "threw", "", <<>>, 0)
       ELSE IF ~ ok
       THEN Outcome(m1, "aborted", IncorrectSignature, <<>>, 1)
       ELSE decodeBody(m1, messageFrames, i, 1)

\* Message.prototype._decode, called on message this
_decode(this, messageFrames, scheme0, key0) ==
    LET scheme == Or(scheme0, "sha256")
        key == Or(key0, "")
        i == scan(messageFrames, 0)
        f(j) == At(messageFrames, i + j)
        m0 == [this EXCEPT !.idents = SubSeq(messageFrames, 1, i)]
        ok == expectedSignature(messageFrames, i, scheme, key) = f(1)
        m1 == [m0 EXCEPT !.signatureOK = IF ok THEN "true" ELSE "false"]
    IN IF tooFewFrames(messageFrames, i)
       THEN Outcome(m0, "aborted", NotEnoughFrames, <<>>, 0)
       ELSE IF f(0) # DELIMITER
       THEN Outcome(m0, "aborted", MissingDelimiter, <<>>, 0)
       ELSE IF ~ Truthy(key)
       THEN decodeBody(m0, messageFrames, i, 0)
       ELSE IF f(5) = undefinedFrame         \* hmac.update(undefined) throws
       THEN Outcome(m0, "threw", "", <<>>, 0)
       ELSE IF ~ ok
       THEN Outcome(m1, "aborted", IncorrectSignature, <<>>, 1)
       ELSE decodeBody(m1, messageFrames, i, 1)

\* an encoding that emits the blobs after content
_encode_WithBlobs(this, scheme0, key0) ==
    LET scheme == Or(scheme0, "sha256")
        key == Or(key0, "")
        header == stringify(this.header)
        parentHeader == stringify(this.parentHeader)
        metadata == stringify(this.metadata)
        content == stringify(this.content)
        signature == IF Truthy(key)
                     THEN hmacDigest(scheme, key, header, parentHeader, metadata, content)
                     ELSE <<>>
    IN this.idents \o <<DELIMITER, signature, header, parentHeader, metadata, content>>
       \o this.blobs

\* Message.prototype._encode, called on message this
_encode(this, scheme0, key0) ==
    LET scheme == Or(scheme0, "sha256")
        key == Or(key0, "")
        header == stringify(this.header)
        parentHeader == stringify(this.parentHeader)
        metadata == stringify(this.metadata)
        content == stringify(this.content)
        signature == IF Truthy(key)
                     THEN hmacDigest(scheme, key, header, parentHeader, metadata, content)
                     ELSE <<>>
    IN this.idents \o <<DELIMITER, signature, header, parentHeader, metadata, content>>

-----------------------------------------------------------------------------
(* Inputs *)

PeerId == <<"peer">>
Blob == <<"blob">>

RequestHeader == Obj("a", "u", "s", "execute_request", "5.0")
OldHeader == Obj("a", undefined, "s", "execute_request", undefined)
StatusOk == [EmptyObject EXCEPT !["status"] = "ok"]

RECURSIVE SeqsUpTo(_, _)
SeqsUpTo(S, n) ==
    IF n = 0 THEN {<<>>}
    ELSE LET shorter == SeqsUpTo(S, n - 1)
         IN shorter \cup {Append(q, x) : q \in shorter, x \in S}

IdentSeqs == SeqsUpTo({PeerId, DELIMITER}, MaxIdents)

Bodies == {<<RequestHeader, EmptyObject, EmptyObject, StatusOk>>,
           <<OldHeader, RequestHeader, StatusOk, EmptyObject>>}

Messages == {Message(ids, b[1], b[2], b[3], b[4], blobs) :
                 ids \in IdentSeqs, b \in Bodies, blobs \in {<<>>, <<Blob>>}}

Schemes == {undefined, "md5"}
SigningKeys == {undefined, "", "k1", "k2"}
EncodingKeys == {"", "k1"}

\* frames a peer or the network may put on the wire
Alphabet == {DELIMITER, PeerId, <<>>, <<"{">>, stringify(EmptyObject), stringify(StatusOk)}

-----------------------------------------------------------------------------
(* The codec, driven on its own: encode a Message, change the frames in     *)
(* flight, decode them into a new Message                                   *)

NoDecode == [frames |-> <<>>, scheme |-> undefined, key |-> undefined,
             msg |-> NewMessage, end |-> "none", log |-> "", parsed |-> <<>>,
             digests |-> 0]

Encode ==
    /\ pc = "idle"
    /\ \E m \in Messages, scheme \in Schemes, key \in EncodingKeys :
          /\ orig' = m
          /\ enc' = [scheme |-> scheme, key |-> key]
          /\ wire' = _encode(m, scheme, key)
    /\ pc' = "wire"
    /\ UNCHANGED <<edits, dec>>
    /\ UNCHANGED socketVars

Alter ==
    /\ pc = "wire"
    /\ edits < MaxTamper
    /\ \E j \in 1..Len(wire), f \in Alphabet :
          /\ f # wire[j]
          /\ wire' = [wire EXCEPT ![j] = f]
    /\ edits' = edits + 1
    /\ UNCHANGED <<orig, enc, pc, dec>>
    /\ UNCHANGED socketVars

Truncate ==
    /\ pc = "wire"
    /\ edits < MaxTamper
    /\ \E n \in 0..(Len(wire) - 1) : wire' = SubSeq(wire, 1, n)
    /\ edits' = edits + 1
    /\ UNCHANGED <<orig, enc, pc, dec>>
    /\ UNCHANGED socketVars

Extend ==
    /\ pc = "wire"
    /\ edits < MaxTamper
    /\ \E f \in Alphabet : wire' = Append(wire, f)
    /\ edits' = edits + 1
    /\ UNCHANGED <<orig, enc, pc, dec>>
    /\ UNCHANGED socketVars

Decode ==
    /\ pc = "wire"
    /\ \E scheme \in Schemes, key \in SigningKeys :
          dec' = [frames |-> wire, scheme |-> scheme, key |-> key]
                 @@ _decode(NewMessage, wire, scheme, key)
    /\ pc' = "decoded"
    /\ UNCHANGED <<orig, enc, wire, edits>>
    /\ UNCHANGED socketVars

Reset ==
    /\ pc = "decoded"
    /\ pc' = "idle"
    /\ orig' = NewMessage
    /\ enc' = [scheme |-> undefined, key |-> undefined]
    /\ wire' = <<>>
    /\ edits' = 0
    /\ dec' = NoDecode
    /\ UNCHANGED socketVars

InitCodec ==
    /\ pc = "idle"
    /\ orig = NewMessage
    /\ enc = [scheme |-> undefined, key |-> undefined]
    /\ wire = <<>>
    /\ edits = 0
    /\ dec = NoDecode

-----------------------------------------------------------------------------
(* The transport: zmq.Socket, an EventEmitter.  A listener is a function   *)
(* value: a user function, or a closure created by Socket.on / Socket.once *)
(* that captured the user function `listener`.                             *)

Events == {"message", "error"}
Listeners == {"h1", "h2"}

Fn(h) == [id |-> 0, listener |-> h]
Closure(n, h) == [id |-> n, listener |-> h]
NoFn == [id |-> 0, listener |-> undefined]

\* EventEmitter.prototype.on / once: append to the event's listeners
emitterOn(list, fn) == Append(list, [fn |-> fn, once |-> FALSE])
emitterOnce(list, fn) == Append(list, [fn |-> fn, once |-> TRUE])

RemoveAt(list, i) == SubSeq(list, 1, i - 1) \o SubSeq(list, i + 1, Len(list))

\* EventEmitter.prototype.removeListener(event, fn) with fn a function:
\* removes the most recently added registration of fn, if any
emitterRemoveListener(list, fn) ==
    LET found == {i \in 1..Len(list) : list[i].fn = fn}
    IN IF found = {} THEN list
       ELSE RemoveAt(list, CHOOSE i \in found : \A j \in found : j <= i)

\* a closure that absorbs what the decode throws and calls the listener
wrapped_Absorbs(messageFrames, scheme, key) ==
    LET r == _decode(NewMessage, messageFrames, scheme, key)
    IN [threw |-> FALSE, invoked |-> TRUE, message |-> r.msg, end |-> r.end]

\* the closure of Socket.on / Socket.once (lines 319-323, 353-357) called
\* with the received frames: decode into a new Message, then call listener
wrapped(messageFrames, scheme, key) ==
    LET r == _decode(NewMessage, messageFrames, scheme, key)
    IN [threw |-> r.end = "threw", invoked |-> r.end # "threw",
        message |-> r.msg, end |-> r.end]

\* EventEmitter.prototype.emit("message", frames...): the listeners are
\* called in order, a once listener is removed before its call, and an
\* exception thrown by a listener ends the emit
RECURSIVE emit(_, _, _, _, _)
emit(list, n, messageFrames, scheme, key) ==
    IF n > Len(list) THEN [calls |-> <<>>, removed |-> {}, threw |-> FALSE]
    ELSE LET w == wrapped(messageFrames, scheme, key)
             gone == IF list[n].once THEN {n} ELSE {}
         IN IF w.threw THEN [calls |-> <<>>, removed |-> gone, threw |-> TRUE]
            ELSE LET rest == emit(list, n + 1, messageFrames, scheme, key)
                 IN [calls |-> <<[listener |-> list[n].fn.listener,
                                  message |-> w.message,
                                  end |-> w.end]>> \o rest.calls,
                     removed |-> gone \cup rest.removed,
                     threw |-> rest.threw]

Keep(list, removed) ==
    LET F[n \in 0..Len(list)] ==
            IF n = 0 THEN <<>>
            ELSE IF n \in removed THEN F[n - 1] ELSE Append(F[n - 1], list[n])
    IN F[Len(list)]

-----------------------------------------------------------------------------
(* Socket: listeners *)

Registrations == nextWrapper + Len(events["error"])

\* Socket.prototype.on (= addListener)
On ==
    /\ Registrations < MaxWrappers
    /\ \E event \in Events, listener \in Listeners :
          /\ IF event # "message"
             THEN /\ events' = [events EXCEPT ![event] = emitterOn(@, Fn(listener))]
                  /\ UNCHANGED <<_jmp, nextWrapper>>
             ELSE LET _listener == [unwrapped |-> listener,
                                    wrapped |-> Closure(nextWrapper + 1, listener)]
                  IN /\ _jmp' = [_jmp EXCEPT !._listeners = Append(@, _listener)]
                     /\ events' = [events EXCEPT
                                     ![event] = emitterOn(@, _listener.wrapped)]
                     /\ nextWrapper' = nextWrapper + 1
          /\ last' = [op |-> "on", event |-> event, listener |-> listener,
                      threw |-> FALSE]
    /\ UNCHANGED <<sent, uuidCount>>
    /\ UNCHANGED codecVars

\* a once that records its wrapper in the table, as on does
Once_Bookkept ==
    /\ Registrations < MaxWrappers
    /\ \E event \in Events, listener \in Listeners :
          /\ IF event # "message"
             THEN /\ events' = [events EXCEPT ![event] = emitterOnce(@, Fn(listener))]
                  /\ UNCHANGED <<_jmp, nextWrapper>>
             ELSE LET _listener == [unwrapped |-> listener,
                                    wrapped |-> Closure(nextWrapper + 1, listener)]
                  IN /\ _jmp' = [_jmp EXCEPT !._listeners = Append(@, _listener)]
                     /\ events' = [events EXCEPT
                                     ![event] = emitterOnce(@, _listener.wrapped)]
                     /\ nextWrapper' = nextWrapper + 1
          /\ last' = [op |-> "once", event |-> event, listener |-> listener,
                      threw |-> FALSE]
    /\ UNCHANGED <<sent, uuidCount>>
    /\ UNCHANGED codecVars

\* Socket.prototype.once
Once ==
    /\ Registrations < MaxWrappers
    /\ \E event \in Events, listener \in Listeners :
          /\ IF event # "message"
             THEN /\ events' = [events EXCEPT ![event] = emitterOnce(@, Fn(listener))]
                  /\ UNCHANGED nextWrapper
             ELSE /\ events' = [events EXCEPT
                                  ![event] = emitterOnce(@, Closure(nextWrapper + 1, listener))]
                  /\ nextWrapper' = nextWrapper + 1
          /\ last' = [op |-> "once", event |-> event, listener |-> listener,
                      threw |-> FALSE]
    /\ UNCHANGED <<_jmp, sent, uuidCount>>
    /\ UNCHANGED codecVars

\* the index of the first entry of the table whose unwrapped is listener, or 0
indexOfUnwrapped(table, listener) ==
    LET found == {i \in 1..Len(table) : table[i].unwrapped = listener}
    IN IF found = {} THEN 0 ELSE CHOOSE i \in found : \A j \in found : i <= j

\* a removeListener that hands the transport the user's listener, not its wrapper
removeListener_Unwrapped(event, listener) ==
    LET i == indexOfUnwrapped(_jmp._listeners, listener)
    IN /\ events' = [events EXCEPT ![event] = emitterRemoveListener(@, Fn(listener))]
       /\ IF event # "message" \/ i = 0
          THEN /\ UNCHANGED _jmp
               /\ last' = [op |-> "removeListener", event |-> event,
                           listener |-> listener, removed |-> NoFn, threw |-> FALSE]
          ELSE /\ _jmp' = [_jmp EXCEPT !._listeners = RemoveAt(@, i)]
               /\ last' = [op |-> "removeListener", event |-> event,
                           listener |-> listener,
                           removed |-> _jmp._listeners[i].wrapped, threw |-> FALSE]
       /\ UNCHANGED <<nextWrapper, sent, uuidCount>>
       /\ UNCHANGED codecVars

\* Socket.prototype.removeListener
removeListener(event, listener) ==
    LET i == indexOfUnwrapped(_jmp._listeners, listener)
    IN /\ IF event # "message" \/ i = 0
          THEN /\ events' = [events EXCEPT
                               ![event] = emitterRemoveListener(@, Fn(listener))]
               /\ UNCHANGED _jmp
               /\ last' = [op |-> "removeListener", event |-> event,
                           listener |-> listener, removed |-> NoFn, threw |-> FALSE]
          ELSE LET _listener == _jmp._listeners[i]
               IN /\ _jmp' = [_jmp EXCEPT !._listeners = RemoveAt(@, i)]
                  /\ events' = [events EXCEPT
                                  ![event] = emitterRemoveListener(@, _listener.wrapped)]
                  /\ last' = [op |-> "removeListener", event |-> event,
                              listener |-> listener, removed |-> _listener.wrapped,
                              threw |-> FALSE]
       /\ UNCHANGED <<nextWrapper, sent, uuidCount>>
       /\ UNCHANGED codecVars

RemoveListener == \E event \in Events, listener \in Listeners : removeListener(event, listener)

\* Socket.prototype.removeAllListeners, called with no argument (event =
\* undefined) or with an event.  Line 399 calls the transport's
\* removeListener with these arguments: its listener is undefined, the
\* EventEmitter throws a TypeError and removes nothing.
removeAllListeners(event) ==
    /\ _jmp' = IF event \in {undefined, "message"}
               THEN [_jmp EXCEPT !._listeners = <<>>]
               ELSE _jmp
    /\ last' = [op |-> "removeAllListeners", event |-> event, threw |-> TRUE]
    /\ UNCHANGED <<events, nextWrapper, sent, uuidCount>>
    /\ UNCHANGED codecVars

RemoveAllListeners == \E event \in Events \cup {undefined} : removeAllListeners(event)

\* frames the transport delivers
Request == Message(<<PeerId>>, RequestHeader, EmptyObject, EmptyObject, StatusOk, <<>>)
Unsigned == _encode(Request, undefined, undefined)
Signed == _encode(Request, undefined, "k1")
\* signed with "k1" over a parentHeader frame that is not JSON
SignedNotJSON == [Signed EXCEPT
                    ![3] = hmacDigest("sha256", "k1", Signed[4], <<"{">>,
                                      Signed[6], Signed[7]),
                    ![5] = <<"{">>]
Received == {Unsigned, Signed, SignedNotJSON,
             Append(Signed, Blob),
             SubSeq(Unsigned, 1, 6),               \* content frame missing
             SubSeq(Signed, 1, 4),                 \* delimiter, signature, header
             [Unsigned EXCEPT ![2] = PeerId],      \* no delimiter
             [Unsigned EXCEPT ![5] = <<"{">>]}     \* parentHeader is not JSON

\* the transport receives frames and emits "message"
Receive ==
    /\ \E messageFrames \in Received :
          LET e == emit(events["message"], 1, messageFrames, _jmp.scheme, _jmp.key)
          IN /\ events' = [events EXCEPT !["message"] = Keep(@, e.removed)]
             /\ last' = [op |-> "receive", frames |-> messageFrames,
                         calls |-> e.calls, threw |-> e.threw]
    /\ UNCHANGED <<_jmp, nextWrapper, sent, uuidCount>>
    /\ UNCHANGED codecVars

-----------------------------------------------------------------------------
(* Socket.send and Message.respond.  An optional argument is a sequence:   *)
(* <<>> when it is not supplied, <<value>> when it is.                      *)

OrElse(opt, default) == IF opt = <<>> THEN default ELSE opt[1]

UuidPool == <<"uuid1", "uuid2", "uuid3", "uuid4">>

\* uuid.v4(): a new identifier at each call
v4(count) == UuidPool[count + 1]

\* a send that does not hand the flags on
send_DropsFlags(message, isMessage, flags) ==
    IF isMessage
    THEN [frames |-> _encode(message, _jmp.scheme, _jmp.key), flags |-> undefined]
    ELSE [frames |-> message, flags |-> undefined]

\* Socket.prototype.send: the raw send handed to the transport
send(message, isMessage, flags) ==
    IF isMessage
    THEN [frames |-> _encode(message, _jmp.scheme, _jmp.key), flags |-> flags]
    ELSE [frames |-> message, flags |-> flags]

Flags == {undefined, "ZMQ_SNDMORE"}

Send ==
    /\ Len(sent) < MaxSent
    /\ \E flags \in Flags :
          \/ \E message \in {Request, NewMessage} :
                /\ sent' = Append(sent, send(message, TRUE, flags))
                /\ last' = [op |-> "send", instance |-> "Message", message |-> message,
                            flags |-> flags, sentBefore |-> Len(sent)]
          \/ \E frames \in {Unsigned, <<Blob>>} :
                /\ sent' = Append(sent, send(frames, FALSE, flags))
                /\ last' = [op |-> "send", instance |-> "Array", message |-> frames,
                            flags |-> flags, sentBefore |-> Len(sent)]
    /\ UNCHANGED <<_jmp, events, nextWrapper, uuidCount>>
    /\ UNCHANGED codecVars

\* a response that copies the original's parentHeader instead of its header
response_ParentOfParent(this, msg_id, messageType, content, metadata, protocolVersion) ==
    LET version == IF Truthy(protocolVersion) THEN protocolVersion
                   ELSE IF Truthy(this.header["version"]) THEN this.header["version"]
                   ELSE undefined
    IN [NewMessage EXCEPT
          !.idents = this.idents,
          !.header = Obj(msg_id, this.header["username"], this.header["session"],
                         messageType, version),
          !.parentHeader = this.parentHeader,
          !.content = OrElse(content, EmptyObject),
          !.metadata = OrElse(metadata, EmptyObject)]

\* a response in which the original's version overrides the protocolVersion given
response_OriginalVersionWins(this, msg_id, messageType, content, metadata, protocolVersion) ==
    LET version == IF Truthy(this.header["version"]) THEN this.header["version"]
                   ELSE IF Truthy(protocolVersion) THEN protocolVersion
                   ELSE undefined
    IN [NewMessage EXCEPT
          !.idents = this.idents,
          !.header = Obj(msg_id, this.header["username"], this.header["session"],
                         messageType, version),
          !.parentHeader = this.header,
          !.content = OrElse(content, EmptyObject),
          !.metadata = OrElse(metadata, EmptyObject)]

\* the Message built by Message.prototype.respond (lines 126-145)
response(this, msg_id, messageType, content, metadata, protocolVersion) ==
    LET version == IF Truthy(protocolVersion) THEN protocolVersion
                   ELSE IF Truthy(this.header["version"]) THEN this.header["version"]
                   ELSE undefined
    IN [NewMessage EXCEPT
          !.idents = this.idents,
          !.header = Obj(msg_id, this.header["username"], this.header["session"],
                         messageType, version),
          !.parentHeader = this.header,
          !.content = OrElse(content, EmptyObject),
          !.metadata = OrElse(metadata, EmptyObject)]

Requests == {Request,
             Message(<<>>, OldHeader, EmptyObject, EmptyObject, EmptyObject, <<Blob>>)}

\* Message.prototype.respond, over this Socket
Respond ==
    /\ Len(sent) < MaxSent
    /\ \E this \in Requests \cup (IF last.op = "respond" THEN {last.response} ELSE {}),
          content \in {<<>>, <<StatusOk>>}, metadata \in {<<>>, <<StatusOk>>},
          protocolVersion \in {undefined, "5.3"} :
          LET r == response(this, v4(uuidCount), "execute_reply", content, metadata,
                            protocolVersion)
          IN /\ sent' = Append(sent, send(r, TRUE, undefined))
             /\ last' = [op |-> "respond", this |-> this, messageType |-> "execute_reply",
                         content |-> content, metadata |-> metadata,
                         protocolVersion |-> protocolVersion, response |-> r,
                         sentBefore |-> Len(sent)]
    /\ uuidCount' = uuidCount + 1
    /\ UNCHANGED <<_jmp, events, nextWrapper>>
    /\ UNCHANGED codecVars

-----------------------------------------------------------------------------

\* new Socket(socketType, scheme, key)
Socket(scheme, key) ==
    /\ _jmp = [scheme |-> scheme, key |-> key, _listeners |-> <<>>]
    /\ events = [e \in Events |-> <<>>]
    /\ nextWrapper = 0
    /\ sent = <<>>
    /\ uuidCount = 0
    /\ last = [op |-> "new"]

SocketKeys == {undefined, "k1", "k2"}

Init == InitCodec /\ \E key \in SocketKeys : Socket(undefined, key)

Next == On \/ Once \/ RemoveListener \/ RemoveAllListeners \/ Receive

Spec == Init /\ [][Next]_vars

\* on, removeListener and receive only
NextOnRemove == On \/ RemoveListener \/ Receive

SpecOnRemove == Init /\ [][NextOnRemove]_vars

\* send and respond only
NextSend == Send \/ Respond

SpecSend == Init /\ [][NextSend]_vars

\* sends by an application that has listeners registered
NextSendOn == Send \/ On

SpecSendOn == Init /\ [][NextSendOn]_vars

InitOneSocket == InitCodec /\ Socket(undefined, undefined)

NextCodec == Encode \/ Alter \/ Truncate \/ Extend \/ Decode \/ Reset

SpecCodec == InitOneSocket /\ [][NextCodec]_vars

-----------------------------------------------------------------------------
(* Properties *)

Decoded == pc = "decoded"

\* a non-empty signing key
HasKey(key) == key \notin {undefined, ""}

\* the four body fields of a Message
Body(m) == <<m.header, m.parentHeader, m.metadata, m.content>>

\* the indices of the delimiter frames, and the first of them
Delimiters(frames) == {n \in 1..Len(frames) : frames[n] = DELIMITER}
FirstDelimiter(frames) ==
    CHOOSE n \in Delimiters(frames) : \A k \in Delimiters(frames) : n <= k

SameScheme(a, b) == Or(a, "sha256") = Or(b, "sha256")

NoDelimiterIn(idents) == \A n \in 1..Len(idents) : idents[n] # DELIMITER

\* C1: a handler registered for "message" is invoked on a receive only if the
\* decode of the received frames did not abort.
C1_HandlerOnlyIfDecoded ==
    last.op = "receive" =>
        \A n \in 1..Len(last.calls) : last.calls[n].end # "aborted"

\* C2: frames with a delimiter followed by fewer than 5 frames: decode aborts
\* without throwing, computes no signature, parses no JSON and reports the
\* frame-count error.
C2_TooFewFramesAbort ==
    (Decoded /\ Delimiters(dec.frames) # {}
             /\ Len(dec.frames) - FirstDelimiter(dec.frames) < 5) =>
        /\ dec.end = "aborted"
        /\ dec.log = NotEnoughFrames
        /\ dec.parsed = <<>>
        /\ dec.digests = 0

\* an unchanged encoding, produced and decoded without a signing key
UnkeyedRoundTrip ==
    Decoded /\ edits = 0 /\ ~ HasKey(enc.key) /\ ~ HasKey(dec.key)

RoundTripped ==
    /\ dec.end = "returned"
    /\ Body(dec.msg) = Body(orig)
    /\ dec.msg.idents = orig.idents

\* C3 as stated: without a signing key, decoding the frames produced by encode
\* reproduces header, parentHeader, metadata, content and idents, for any
\* idents sequence.
C3_RoundTripAnyIdents == UnkeyedRoundTrip => RoundTripped

\* C3 as amended: without a signing key, decoding the frames produced by
\* encode reproduces header, parentHeader, metadata, content and idents, for
\* any idents sequence none of whose frames equals the delimiter.
C3_RoundTrip ==
    (UnkeyedRoundTrip /\ NoDelimiterIn(orig.idents)) => RoundTripped

C3_Witness ==
    /\ UnkeyedRoundTrip
    /\ orig.idents = <<PeerId>>
    /\ Body(orig) = <<OldHeader, RequestHeader, StatusOk, EmptyObject>>
    /\ dec.msg.metadata = StatusOk

\* an unchanged encoding, produced with a non-empty key and decoded with a
\* non-empty key
KeyedRoundTrip ==
    Decoded /\ edits = 0 /\ HasKey(enc.key) /\ HasKey(dec.key)

SameKey == dec.key = enc.key /\ SameScheme(dec.scheme, enc.scheme)

Verified ==
    /\ dec.msg.signatureOK = "true"
    /\ dec.end = "returned"
    /\ Body(dec.msg) = Body(orig)

Rejected ==
    /\ dec.end = "aborted"
    /\ Body(dec.msg) = Body(NewMessage)

\* C4 as stated: with a non-empty key, decoding an encoding with the same
\* scheme and key sets signatureOK to true and populates the body; decoding
\* it with a different non-empty key aborts and populates no body field.
C4_SignatureAnyIdents ==
    KeyedRoundTrip =>
        /\ SameKey => Verified
        /\ dec.key # enc.key => Rejected

\* C4 as amended: the same, for a Message none of whose idents equals the
\* delimiter in the same-key case.
C4_Signature ==
    KeyedRoundTrip =>
        /\ (SameKey /\ NoDelimiterIn(orig.idents)) => Verified
        /\ dec.key # enc.key => Rejected

C4_Witness ==
    /\ KeyedRoundTrip
    /\ SameKey
    /\ dec.scheme = "md5"
    /\ orig.idents = <<PeerId>>
    /\ dec.msg.header = RequestHeader
    /\ dec.msg.signatureOK = "true"

\* the decoded frames are the encoding of orig with exactly one of its four
\* body frames replaced by another text
OneBodyFrameAltered ==
    LET e == _encode(orig, enc.scheme, enc.key)
        n == Len(orig.idents)
        differ == {j \in 1..Len(e) : dec.frames[j] # e[j]}
    IN /\ Len(dec.frames) = Len(e)
       /\ Cardinality(differ) = 1
       /\ differ \subseteq (n + 3)..(n + 6)

\* C5: with a key configured, if one of the header, parentHeader, metadata or
\* content frames of an encoding is altered before decode, decode sets
\* signatureOK to false and aborts, and none of the four frames is parsed.
C5_TamperDetected ==
    (Decoded /\ HasKey(dec.key) /\ OneBodyFrameAltered) =>
        /\ dec.msg.signatureOK = "false"
        /\ dec.end = "aborted"
        /\ dec.parsed = <<>>
        /\ Body(dec.msg) = Body(NewMessage)

C5_Witness ==
    /\ Decoded /\ HasKey(enc.key) /\ SameKey /\ OneBodyFrameAltered
    /\ orig.idents = <<PeerId>>
    /\ dec.frames[7] = stringify(StatusOk)
    /\ orig.content = EmptyObject
    /\ dec.msg.signatureOK = "false"

\* idents without delimiter, the delimiter, a signature frame of any content,
\* four JSON texts, and any further frames
WellFormed(frames) ==
    /\ Delimiters(frames) # {}
    /\ LET d == FirstDelimiter(frames)
       IN /\ Len(frames) >= d + 5
          /\ \A j \in 2..5 : parse(frames[d + j]).ok

\* C6: with no key (or an empty key) at decode, decode of a well-formed frame
\* sequence compares no signature whatever the signature frame holds, leaves
\* signatureOK unset and parses header, parentHeader, metadata and content.
C6_NoKeyMode ==
    (Decoded /\ ~ HasKey(dec.key) /\ WellFormed(dec.frames)) =>
        LET d == FirstDelimiter(dec.frames)
        IN /\ dec.digests = 0
           /\ dec.msg.signatureOK = null
           /\ dec.end = "returned"
           /\ dec.msg.header = parse(dec.frames[d + 2]).value
           /\ dec.msg.parentHeader = parse(dec.frames[d + 3]).value
           /\ dec.msg.metadata = parse(dec.frames[d + 4]).value
           /\ dec.msg.content = parse(dec.frames[d + 5]).value

C6_Witness ==
    /\ Decoded /\ dec.key = "" /\ WellFormed(dec.frames)
    /\ enc.key = "k1"
    /\ Len(dec.frames[FirstDelimiter(dec.frames) + 1]) > 0
    /\ dec.msg.header = RequestHeader
    /\ dec.msg.signatureOK = null

\* C7: encode returns idents followed by the six frames delimiter, signature,
\* header, parentHeader, metadata, content; blobs are never emitted; the
\* signature frame is empty when the key is empty.
C7_EncodeFrames ==
    (pc = "wire" /\ edits = 0) =>
        LET n == Len(orig.idents)
        IN /\ Len(wire) = n + 6
           /\ SubSeq(wire, 1, n) = orig.idents
           /\ wire[n + 1] = DELIMITER
           /\ wire[n + 2] = IF HasKey(enc.key)
                            THEN hmacDigest(Or(enc.scheme, "sha256"), enc.key,
                                            wire[n + 3], wire[n + 4], wire[n + 5],
                                            wire[n + 6])
                            ELSE <<>>
           /\ \A j \in 3..6 : parse(wire[n + j]).ok
           /\ <<parse(wire[n + 3]).value, parse(wire[n + 4]).value,
                parse(wire[n + 5]).value, parse(wire[n + 6]).value>> = Body(orig)

C7_Witness ==
    /\ pc = "wire" /\ edits = 0
    /\ orig.blobs = <<Blob>>
    /\ orig.idents = <<PeerId>>
    /\ enc.key = ""
    /\ Len(wire) = 7
    /\ wire[3] = <<>>

\* C8: respond performs exactly one send, of a new Message with the original's
\* idents, the original's header as parentHeader, the original's username and
\* session, the given msg_type, a new msg_id that differs from the original's,
\* and the supplied content and metadata or empty objects.
C8_RespondLinkage ==
    last.op = "respond" =>
        LET r == last.response
        IN /\ Len(sent) = last.sentBefore + 1
           /\ sent[Len(sent)].frames = _encode(r, _jmp.scheme, _jmp.key)
           /\ r.idents = last.this.idents
           /\ r.parentHeader = last.this.header
           /\ r.header["username"] = last.this.header["username"]
           /\ r.header["session"] = last.this.header["session"]
           /\ r.header["msg_type"] = last.messageType
           /\ r.header["msg_id"] # last.this.header["msg_id"]
           /\ r.header["msg_id"] = UuidPool[uuidCount]
           /\ r.content = (IF last.content = <<>> THEN EmptyObject ELSE last.content[1])
           /\ r.metadata = (IF last.metadata = <<>> THEN EmptyObject ELSE last.metadata[1])

C8_Witness ==
    /\ last.op = "respond"
    /\ last.this.header["msg_id"] = "uuid1"
    /\ last.response.header["msg_id"] = "uuid2"
    /\ last.response.parentHeader["msg_type"] = "execute_reply"
    /\ last.content = <<>>
    /\ last.metadata = <<StatusOk>>
    /\ Len(sent) = 2

Entries(h) == {n \in 1..Len(_jmp._listeners) : _jmp._listeners[n].unwrapped = h}
Registered(h) ==
    {n \in 1..Len(events["message"]) : events["message"][n].fn.listener = h}

\* C9: removeListener("message", h) removes the table entry of h and takes its
\* wrapper off the transport; once every registration of h made with on is
\* removed, no wrapper of h is registered and a receive does not invoke h.
C9_RemoveListener ==
    /\ (last.op = "removeListener" /\ last.event = "message" /\ last.removed # NoFn) =>
          /\ last.removed.listener = last.listener
          /\ \A n \in 1..Len(events["message"]) :
                events["message"][n].fn # last.removed
          /\ \A n \in 1..Len(_jmp._listeners) :
                _jmp._listeners[n].wrapped # last.removed
    /\ \A h \in Listeners :
          Entries(h) = {} =>
              /\ Registered(h) = {}
              /\ last.op = "receive" =>
                    \A n \in 1..Len(last.calls) : last.calls[n].listener # h

C9_Witness ==
    /\ nextWrapper = 2
    /\ _jmp._listeners = <<>>
    /\ last.op = "receive"
    /\ last.frames = Unsigned
    /\ last.calls = <<>>

\* C10: removeAllListeners("message") and removeAllListeners() leave the table
\* empty and no "message" listener on the transport, and a receive that
\* follows invokes no handler.
C10_RemoveAllListeners ==
    [][/\ (last'.op = "removeAllListeners" /\ last'.event \in {undefined, "message"}) =>
            (_jmp'._listeners = <<>> /\ events'["message"] = <<>>)
       /\ (last.op = "removeAllListeners" /\ last.event \in {undefined, "message"}
             /\ last'.op = "receive") =>
            last'.calls = <<>>]_vars

\* C11: for a frame sequence of any length in which no frame equals the
\* delimiter, decode aborts without throwing and parses no body frame.
C11_MissingDelimiterAborts ==
    (Decoded /\ Delimiters(dec.frames) = {}) =>
        /\ dec.end = "aborted"
        /\ dec.parsed = <<>>
        /\ Body(dec.msg) = Body(NewMessage)

C11_Witness ==
    /\ Decoded /\ Delimiters(dec.frames) = {}
    /\ Len(dec.frames) = 6
    /\ dec.frames[1] = PeerId
    /\ HasKey(dec.key)
    /\ dec.end = "aborted"

\* a decode that aborted on the frame count or on the missing delimiter
AbortedEarly ==
    Decoded /\ dec.end = "aborted" /\ dec.log \in {NotEnoughFrames, MissingDelimiter}

\* the frames before the first delimiter frame, all of them when there is none
FramesBeforeDelimiter(frames) ==
    IF Delimiters(frames) = {} THEN frames
    ELSE SubSeq(frames, 1, FirstDelimiter(frames) - 1)

\* C12 as stated: when decode of a new Message aborts for too few frames or a
\* missing delimiter, every field still has the value of a new Message.
C12_AbortLeavesAllFields == AbortedEarly => dec.msg = NewMessage

\* C12 as amended: when decode of a new Message aborts for too few frames or a
\* missing delimiter, header, parentHeader, metadata, content, blobs and
\* signatureOK still have the values of a new Message, and idents holds the
\* frames before the first delimiter (every frame when there is none).
C12_AbortLeavesBody ==
    AbortedEarly =>
        /\ [dec.msg EXCEPT !.idents = <<>>] = NewMessage
        /\ dec.msg.idents = FramesBeforeDelimiter(dec.frames)

C12_Witness ==
    /\ AbortedEarly
    /\ dec.frames = <<PeerId, DELIMITER, <<>>>>
    /\ dec.msg.idents = <<PeerId>>
    /\ dec.msg.blobs = <<>>

\* the delimiter was found and the signature frame and the four body frames
\* follow it
ReachedComparison(frames) ==
    /\ Delimiters(frames) # {}
    /\ Len(frames) >= FirstDelimiter(frames) + 5

\* C13: after a decode on a new Message signatureOK is unset when no key is
\* configured; with a non-empty key, once the delimiter is found and enough
\* frames follow, it is true or false, and true exactly when the signature
\* frame is the HMAC of the header, parentHeader, metadata, content frames in
\* that order.
C13_SignatureOK ==
    Decoded =>
        /\ ~ HasKey(dec.key) => dec.msg.signatureOK = null
        /\ (HasKey(dec.key) /\ ReachedComparison(dec.frames)) =>
              LET d == FirstDelimiter(dec.frames)
                  hmac == hmacDigest(Or(dec.scheme, "sha256"), dec.key,
                                     dec.frames[d + 2], dec.frames[d + 3],
                                     dec.frames[d + 4], dec.frames[d + 5])
              IN dec.msg.signatureOK =
                     (IF dec.frames[d + 1] = hmac THEN "true" ELSE "false")

C13_Witness ==
    /\ Decoded /\ HasKey(dec.key) /\ ReachedComparison(dec.frames)
    /\ edits = 1
    /\ Len(dec.frames) = 8
    /\ orig.metadata # orig.content
    /\ dec.msg.signatureOK = "true"

\* C14: when decode returns without aborting, idents is the frames before the
\* first delimiter, header, parentHeader, metadata and content are the parses
\* of the 2nd, 3rd, 4th and 5th frames after it, and blobs is the frames after
\* the content frame, unmodified, a delimiter among them included.
C14_DecodedFields ==
    (Decoded /\ dec.end = "returned") =>
        /\ Delimiters(dec.frames) # {}
        /\ LET d == FirstDelimiter(dec.frames)
           IN /\ dec.msg.idents = SubSeq(dec.frames, 1, d - 1)
              /\ dec.msg.header = parse(dec.frames[d + 2]).value
              /\ dec.msg.parentHeader = parse(dec.frames[d + 3]).value
              /\ dec.msg.metadata = parse(dec.frames[d + 4]).value
              /\ dec.msg.content = parse(dec.frames[d + 5]).value
              /\ dec.msg.blobs = SubSeq(dec.frames, d + 6, Len(dec.frames))

C14_Witness ==
    /\ Decoded /\ dec.end = "returned"
    /\ Len(dec.frames) = 8
    /\ dec.msg.idents = <<PeerId>>
    /\ dec.msg.blobs = <<DELIMITER>>
    /\ dec.msg.content = StatusOk

\* C20: in decode, whenever the frame-count guard passes, the frame at the
\* scan index is the delimiter: the "Missing delimiter" branch is never taken,
\* and a frame sequence without delimiter is reported as "Not enough message
\* frames".
C20_MissingDelimiterUnreachable ==
    Decoded =>
        /\ dec.log # MissingDelimiter
        /\ Delimiters(dec.frames) = {} => dec.log = NotEnoughFrames
        /\ Len(dec.frames) - Len(FramesBeforeDelimiter(dec.frames)) >= 5 =>
              /\ Delimiters(dec.frames) # {}
              /\ dec.log # NotEnoughFrames

C20_Witness ==
    /\ Decoded /\ Delimiters(dec.frames) = {}
    /\ Len(dec.frames) = 7
    /\ ~ HasKey(dec.key)
    /\ dec.log = NotEnoughFrames

\* the header frame of the last raw send, for a Message with the given idents
SentHeaderFrame(idents) == sent[Len(sent)].frames[Len(idents) + 3]

\* C15: the version in the header of a response is the protocolVersion given
\* to respond, else the version of the original's header, else absent: the
\* response header then has no version field.
C15_ResponseVersion ==
    last.op = "respond" =>
        LET r == last.response
            expected == IF last.protocolVersion # undefined
                        THEN last.protocolVersion
                        ELSE last.this.header["version"]
            frame == SentHeaderFrame(r.idents)
        IN /\ r.header["version"] = expected
           /\ parse(frame).value["version"] = expected
           /\ expected = undefined =>
                 \A n \in 1..Len(frame) : frame[n] # "version"

C15_Witness ==
    /\ last.op = "respond"
    /\ last.protocolVersion = undefined
    /\ last.this.header = OldHeader
    /\ last.response.header["version"] = undefined
    /\ last.response.header["session"] = "s"

\* the listeners of the calls a receive made
Invoked(calls) == {calls[n].listener : n \in 1..Len(calls)}

C17_SendPassthrough ==
    [][last'.op = "send" =>
          /\ sent' = Append(sent,
                 [frames |-> IF last'.instance = "Message"
                             THEN _encode(last'.message, _jmp.scheme, _jmp.key)
                             ELSE last'.message,
                  flags |-> last'.flags])
          /\ _jmp' = _jmp
          /\ events' = events]_vars

C17_Witness ==
    /\ last.op = "send"
    /\ last.instance = "Message"
    /\ last.flags = "ZMQ_SNDMORE"
    /\ HasKey(_jmp.key)
    /\ Len(_jmp._listeners) = 1
    /\ Len(sent) = last.sentBefore + 1
    /\ sent[Len(sent)].flags = "ZMQ_SNDMORE"
    /\ sent[Len(sent)].frames = _encode(last.message, _jmp.scheme, _jmp.key)
    /\ sent[Len(sent)].frames[Len(last.message.idents) + 2] # <<>>

\* the frames pass the checks that come before the parsing: the delimiter is
\* there, the signature frame and the four body frames follow it, and with a
\* key the signature frame is the expected HMAC
PassesChecks(frames, scheme, key) ==
    /\ ReachedComparison(frames)
    /\ HasKey(key) =>
          frames[FirstDelimiter(frames) + 1] =
              expectedSignature(frames, FirstDelimiter(frames) - 1, Or(scheme, "sha256"), key)

\* one of the header, parentHeader, metadata, content frames is not JSON
NotJSON(frames) ==
    \E o \in 2..5 : ~ parse(frames[FirstDelimiter(frames) + o]).ok

\* C18: when the frames pass the frame count, delimiter and (with a key)
\* signature checks and one of the four body frames is not parsable JSON,
\* _decode throws, the throw ends the emit in the first wrapper, and no
\* handler is invoked for that receive.
C18_ParseFaultPropagates ==
    [][(/\ last'.op = "receive"
        /\ PassesChecks(last'.frames, _jmp.scheme, _jmp.key)
        /\ NotJSON(last'.frames)) =>
          /\ _decode(NewMessage, last'.frames, _jmp.scheme, _jmp.key).end = "threw"
          /\ last'.calls = <<>>
          /\ events["message"] # <<>> => last'.threw]_vars

C18_Witness ==
    /\ last.op = "receive"
    /\ HasKey(_jmp.key)
    /\ PassesChecks(last.frames, _jmp.scheme, _jmp.key)
    /\ NotJSON(last.frames)
    /\ last.threw
    /\ last.calls = <<>>
    /\ Len(_jmp._listeners) = 1

\* the table entries that hold the wrapper fn
EntriesOf(fn) == {n \in 1..Len(_jmp._listeners) : _jmp._listeners[n].wrapped = fn}

\* C19: the table and the transport agree: the wrapper of each table entry is
\* registered on the transport's "message" event, and each wrapper that on
\* registered and that is still on the transport has exactly one table entry.
C19_TableAgreesWithTransport ==
    /\ \A n \in 1..Len(_jmp._listeners) :
          \E k \in 1..Len(events["message"]) :
             events["message"][k].fn = _jmp._listeners[n].wrapped
    /\ \A k \in 1..Len(events["message"]) :
          ~ events["message"][k].once =>
             Cardinality(EntriesOf(events["message"][k].fn)) = 1

====
